---- MODULE Spec2Model ----
(***************************************************************************)
(* Model of src/Tasks.py: the Task control block of the simulator, its     *)
(* create/killTask trap handlers, kill, spawn and the thread / open-file    *)
(* collection operations.  Collaborators that are not part of Tasks.py      *)
(* (registry, mode, Thread.kill, OpenFileDescriptor.close, Directory) are   *)
(* modelled from the specification's description of their interfaces.      *)
(***************************************************************************)
EXTENDS Integers, Sequences, FiniteSets, TLC

VARIABLES
    mode,              \* Globals mode: "Privileged" or "User"
    tasks,             \* task id -> Task instance (the private fields)
    nextTaskId,        \* registry: next unique id to hand out
    liveTasks,         \* registry: ids of the registered (live) tasks
    swapDir,           \* names of the entries of the /swap directory
    rescheduleNeeded,  \* Globals reschedule flag
    hist,              \* task id -> the thread ids spawn has handed out
    lastOp             \* the last operation performed and its outcome

vars == <<mode, tasks, nextTaskId, liveTasks, swapDir, rescheduleNeeded, hist, lastOp>>

----------------------------------------------------------------------------
(* Bounds of the model *)

MaxNumTasks == 2        \* value returned by Globals.getMaxNumTasks()
MaxNumThreads == 3      \* value returned by Globals.getMaxNumThreads()
MaxTaskIds == 2         \* ids the registry hands out in one run
FocusTask == 0          \* id of the task whose instance operations are called
                        \* directly; the other tasks go through the traps only

OtherFiles == {"f1"}    \* files besides the swap file a task may open
Users == {"root"}       \* content of register 6

----------------------------------------------------------------------------
(* Values *)

NoThread == <<>>
NoTask == -1
NoLog == <<>>

TaskNew == "New"
TaskReady == "Ready"
TaskKill == "Killed"

PrivilegedMode == "Privileged"
UserMode == "User"

\* Thread(id, task, nonPreemptive): a thread object is identified by its
\* constructor arguments
Thread(id, task, np) == <<id, task, np>>
ThreadId(th) == th[1]
ThreadTask(th) == th[2]
ThreadNonPreemptive(th) == th[3]

\* File.open(file, task): the descriptor of the named file opened by task
OpenFile(name, task) == <<name, task>>
FdName(fd) == fd[1]

\* str(self.__id)
Str(id) == ToString(id)

----------------------------------------------------------------------------
(* Sequence helpers (Python list operations) *)

\* list[::-1]
Reversed(s) == [i \in 1..Len(s) |-> s[Len(s) + 1 - i]]

\* x in list
Contains(s, x) == \E i \in 1..Len(s) : s[i] = x

\* list.remove(x) inside try/except: drops the first occurrence, or nothing
RECURSIVE ListRemove(_, _)
ListRemove(s, x) ==
    IF s = <<>> THEN <<>>
    ELSE IF Head(s) = x THEN Tail(s)
    ELSE <<Head(s)>> \o ListRemove(Tail(s), x)

Count(s, x) == Cardinality({i \in 1..Len(s) : s[i] = x})

----------------------------------------------------------------------------
(* Task.__init__ *)

\* constructor that gives every task priority zero
PriorityZero(np) == 0

\* priority: -1 if the task is non-preemptive, zero otherwise
Priority(np) == IF np THEN -1 ELSE 0

\* 2 ** Globals.getNumAddressBits()
NumAddressBits == 2
SwapFileSize == 2 ^ NumAddressBits

\* constructor that does not look the swap file up
SwapFileMissingAlways(dir, id) == TRUE

\* Directory.getFileEntry(swapDirectory, str(id)) is None
SwapFileMissing(dir, id) == Str(id) \notin dir

\* the call Directory.newFile(swapDirectory, str(id), swapFileSize), if made
NewFileCall(dir, id) ==
    IF SwapFileMissing(dir, id) THEN <<Str(id), SwapFileSize>> ELSE <<>>

\* the /swap directory after the constructor ran
SwapDirAfterInit(dir, id) ==
    IF SwapFileMissing(dir, id) THEN dir \cup {Str(id)} ELSE dir

\* the instance the constructor leaves behind
TaskInit(id, user, np) ==
    [ status             |-> TaskNew,
      id                 |-> id,
      user               |-> user,
      nonPreemptive      |-> np,
      priority           |-> Priority(np),
      threadsList        |-> <<>>,
      nextThreadNum      |-> 0,
      openFileDescriptor |-> <<OpenFile(Str(id), id)>>,
      activeThread       |-> NoThread,
      pageTable          |-> "allocated",
      swapFile           |-> OpenFile(Str(id), id) ]

----------------------------------------------------------------------------
(* Instance operations, as functions of the instance T *)

GetNumThreads(T) == T.nextThreadNum

\* the condition of spawn's if
SpawnAllowed(T) == GetNumThreads(T) < MaxNumTasks

\* spawn that builds the thread with the default flag
SpawnNonPreemptiveDefault(T) == FALSE

\* the non-preemptive status spawn passes to the Thread constructor
SpawnNonPreemptive(T) == T.nonPreemptive

\* spawn that forgets the increment
IncrThreadNumStuck(n) == n

\* self.__nextThreadNum += 1
IncrThreadNum(n) == n + 1

AddThreadTo(T, th) == [T EXCEPT !.threadsList = Append(@, th)]

SpawnOn(T) ==
    IF SpawnAllowed(T)
    THEN [AddThreadTo(T, Thread(T.nextThreadNum, T.id, SpawnNonPreemptive(T)))
            EXCEPT !.nextThreadNum = IncrThreadNum(@)]
    ELSE T

\* removeThread that clears the active thread whatever it removes
ActiveAfterRemoveCleared(active, th) == NoThread

\* removeThread that forgets to clear the active thread
ActiveAfterRemoveKept(active, th) == active

\* the active thread after removeThread(th)
ActiveAfterRemove(active, th) == IF th = active THEN NoThread ELSE active

RemoveThreadFrom(T, th) ==
    [T EXCEPT !.activeThread = ActiveAfterRemove(@, th),
              !.threadsList = ListRemove(@, th)]

\* setActiveThread raises
SetActiveRaises(T, th) == th # NoThread /\ ~Contains(T.threadsList, th)

\* setActiveThread without the membership test
SetActiveOnAny(T, th) == [T EXCEPT !.activeThread = th]

SetActiveOn(T, th) ==
    IF th = NoThread THEN [T EXCEPT !.activeThread = NoThread]
    ELSE IF Contains(T.threadsList, th) THEN [T EXCEPT !.activeThread = th]
    ELSE T

\* addOpenFile without the membership test
AddOpenFileAlways(T, fd) == [T EXCEPT !.openFileDescriptor = Append(@, fd)]

AddOpenFileTo(T, fd) ==
    IF ~Contains(T.openFileDescriptor, fd)
    THEN [T EXCEPT !.openFileDescriptor = Append(@, fd)]
    ELSE T

RemoveOpenFileFrom(T, fd) ==
    [T EXCEPT !.openFileDescriptor = ListRemove(@, fd)]

\* Thread.kill(): the thread deregisters itself from its owning task
ThreadKillOn(T, th) ==
    IF ThreadTask(th) = T.id THEN RemoveThreadFrom(T, th) ELSE T

\* OpenFileDescriptor.close(fd): the descriptor deregisters itself
CloseOn(T, fd) == RemoveOpenFileFrom(T, fd)

----------------------------------------------------------------------------
(* Task.kill *)

\* Directory.rm: the directory without the entry of the swap file
DirRm(dir, fd) == dir \ {FdName(fd)}

\* loops over copies of the lists from the front
KillOrderFromFront(list) == list

\* a forward loop over the list its own body shrinks: every other element
KillOrderForward(list) == [i \in 1..((Len(list) + 1) \div 2) |-> list[2 * i - 1]]

\* the elements the for loops of kill visit, in order
KillOrder(list) == Reversed(list)

\* kill that removes the swap entry before it closes the files
KillStepsRmEarly == <<"simkill", "status", "threads", "rm", "files", "dealloc">>

\* kill that leaves the swap entry in /swap
KillStepsNoRm == <<"simkill", "status", "threads", "files", "dealloc">>

\* kill that leaves the open files alone
KillStepsNoClose == <<"simkill", "status", "threads", "dealloc", "rm">>

\* the steps of kill, in program order
KillSteps == <<"simkill", "status", "threads", "files", "dealloc", "rm">>

\* kill that resets the status
KillStatusReset == TaskNew

\* status assigned by kill
KillStatus == TaskKill

RECURSIVE KillThreads(_, _)
KillThreads(c, order) ==
    IF order = <<>> THEN c
    ELSE KillThreads([c EXCEPT !.task = ThreadKillOn(@, Head(order)),
                               !.log = Append(@, <<"kill", Head(order)>>)],
                     Tail(order))

RECURSIVE CloseFiles(_, _)
CloseFiles(c, order) ==
    IF order = <<>> THEN c
    ELSE CloseFiles([c EXCEPT !.task = CloseOn(@, Head(order)),
                              !.log = Append(@, <<"close", Head(order)>>)],
                    Tail(order))

\* one step of kill on the context c = [task, dir, live, log]
KillStep(c, step) ==
    CASE step = "simkill" ->
           [c EXCEPT !.live = @ \ {c.task.id},
                     !.log = Append(@, <<"simkill", c.task.id>>)]
      [] step = "status" ->
           [c EXCEPT !.task.status = KillStatus,
                     !.log = Append(@, <<"status", KillStatus>>)]
      [] step = "threads" ->
           KillThreads(c, KillOrder(c.task.threadsList))
      [] step = "files" ->
           CloseFiles(c, KillOrder(c.task.openFileDescriptor))
      [] step = "dealloc" ->
           [c EXCEPT !.task.pageTable = "deallocated",
                     !.log = Append(@, <<"dealloc", c.task.id>>)]
      [] step = "rm" ->
           [c EXCEPT !.dir = DirRm(@, c.task.swapFile),
                     !.log = Append(@, <<"rm", c.task.swapFile>>)]

RECURSIVE RunKill(_, _)
RunKill(c, steps) ==
    IF steps = <<>> THEN c ELSE RunKill(KillStep(c, Head(steps)), Tail(steps))

KillOn(T, dir, live) ==
    RunKill([task |-> T, dir |-> dir, live |-> live, log |-> <<>>], KillSteps)

----------------------------------------------------------------------------
(* Registry, mode and trap handlers *)

\* SimTask.getNumTasks()
GetNumTasks(live) == Cardinality(live)

\* the condition of create's if
HasTaskCapacity(live) == GetNumTasks(live) < MaxNumTasks

\* a handler without its assertion
ModeAssertedSkipped(m) == TRUE

\* assert Globals.getMode() == Globals.PrivilegedMode
ModeAsserted(m) == m = PrivilegedMode

\* status create assigns to the new task
CreateStatus == TaskReady

\* the task create() registers: constructed, spawned once, made ready
CreatedTask(id, user, np) ==
    [SpawnOn(TaskInit(id, user, np)) EXCEPT !.status = CreateStatus]

\* killTask that restores user mode only after a kill
KillTaskEndModeInIf(reg) == IF reg = NoTask THEN PrivilegedMode ELSE UserMode

\* the mode killTask leaves behind (Globals.setUserMode())
KillTaskEndMode(reg) == UserMode

\* create that returns at capacity without leaving privileged mode
CreateFullEndModeKept == PrivilegedMode

\* the mode create leaves behind at capacity
CreateFullEndMode == UserMode

\* the record of a call: its name, target task, argument, what it found
\* (pre), the exception it raised, its result, the collaborator calls of
\* kill (log) and the Directory.newFile call of the constructor
Op(op, task, arg, pre, raised, ret, log, newFile) ==
    [op |-> op, task |-> task, arg |-> arg, pre |-> pre, raised |-> raised,
     ret |-> ret, log |-> log, newFile |-> newFile]

NoHist == [spawned |-> <<>>]

\* the ids spawn handed out, extended by what a spawn on T handed out
SpawnedAfter(h, T, T2) ==
    IF Len(T2.threadsList) > Len(T.threadsList)
    THEN [h EXCEPT !.spawned = Append(@, ThreadId(T2.threadsList[Len(T2.threadsList)]))]
    ELSE h

CountLog(log, kind) == Cardinality({i \in 1..Len(log) : log[i][1] = kind})

TaskIds == DOMAIN tasks

\* the tasks whose instance operations the environment calls directly
Worked == TaskIds \cap {FocusTask}

\* boot: no task yet; /swap is empty or still holds the swap file "0" that an
\* earlier run left behind
Init ==
    /\ mode = UserMode
    /\ tasks = <<>>
    /\ nextTaskId = 0
    /\ liveTasks = {}
    /\ swapDir \in {{}, {Str(0)}}
    /\ rescheduleNeeded = FALSE
    /\ hist = <<>>
    /\ lastOp = Op("init", NoTask, <<>>, "", "", NoTask, NoLog, <<>>)

\* the interrupt layer enters privileged mode to dispatch a trap
Trap ==
    /\ mode = UserMode
    /\ mode' = PrivilegedMode
    /\ lastOp' = Op("trap", NoTask, <<>>, "", "", NoTask, NoLog, <<>>)
    /\ UNCHANGED <<tasks, nextTaskId, liveTasks, swapDir, rescheduleNeeded, hist>>

\* create without the call of SimTask.registerTask
CreateUnregistered(np, user) ==
    IF ~ModeAsserted(mode)
    THEN /\ lastOp' = Op("create", NoTask, <<np>>, "", "AssertionError", NoTask, NoLog, <<>>)
         /\ UNCHANGED <<mode, tasks, nextTaskId, liveTasks, swapDir, rescheduleNeeded, hist>>
    ELSE IF HasTaskCapacity(liveTasks)
    THEN LET id == nextTaskId
             T0 == TaskInit(id, user, np)
             T  == CreatedTask(id, user, np)
         IN /\ id < MaxTaskIds
            /\ nextTaskId' = id + 1
            /\ swapDir' = SwapDirAfterInit(swapDir, id)
            /\ liveTasks' = liveTasks
            /\ tasks' = (id :> T) @@ tasks
            /\ hist' = (id :> SpawnedAfter(NoHist, T0, T)) @@ hist
            /\ rescheduleNeeded' = (rescheduleNeeded \/ T # [T0 EXCEPT !.status = CreateStatus])
            /\ mode' = UserMode
            /\ lastOp' = Op("create", id, <<np>>, "", "", id,
                            <<<<"construct", T0>>>>, NewFileCall(swapDir, id))
    ELSE /\ mode' = CreateFullEndMode
         /\ lastOp' = Op("create", NoTask, <<np>>, "", "", NoTask, NoLog, <<>>)
         /\ UNCHANGED <<tasks, nextTaskId, liveTasks, swapDir, rescheduleNeeded, hist>>

\* Task.create(nonPreemptive), register 6 holding user
Create(np, user) ==
    IF ~ModeAsserted(mode)
    THEN /\ lastOp' = Op("create", NoTask, <<np>>, "", "AssertionError", NoTask, NoLog, <<>>)
         /\ UNCHANGED <<mode, tasks, nextTaskId, liveTasks, swapDir, rescheduleNeeded, hist>>
    ELSE IF HasTaskCapacity(liveTasks)
    THEN LET id == nextTaskId
             T0 == TaskInit(id, user, np)
             T  == CreatedTask(id, user, np)
         IN /\ id < MaxTaskIds
            /\ nextTaskId' = id + 1
            /\ swapDir' = SwapDirAfterInit(swapDir, id)
            /\ liveTasks' = liveTasks \cup {id}
            /\ tasks' = (id :> T) @@ tasks
            /\ hist' = (id :> SpawnedAfter(NoHist, T0, T)) @@ hist
            /\ rescheduleNeeded' = (rescheduleNeeded \/ T # [T0 EXCEPT !.status = CreateStatus])
            /\ mode' = UserMode
            /\ lastOp' = Op("create", id, <<np>>, "", "", id,
                            <<<<"construct", T0>>>>, NewFileCall(swapDir, id))
    ELSE /\ mode' = CreateFullEndMode
         /\ lastOp' = Op("create", NoTask, <<np>>, "", "", NoTask, NoLog, <<>>)
         /\ UNCHANGED <<tasks, nextTaskId, liveTasks, swapDir, rescheduleNeeded, hist>>

\* Task.killTask(), register 1 holding reg (a task or None)
KillTask(reg) ==
    IF ~ModeAsserted(mode)
    THEN /\ lastOp' = Op("killTask", reg, <<>>, "", "AssertionError", NoTask, NoLog, <<>>)
         /\ UNCHANGED <<mode, tasks, nextTaskId, liveTasks, swapDir, rescheduleNeeded, hist>>
    ELSE IF reg # NoTask
    THEN LET c == KillOn(tasks[reg], swapDir, liveTasks)
         IN /\ tasks' = [tasks EXCEPT ![reg] = c.task]
            /\ swapDir' = c.dir
            /\ liveTasks' = c.live
            /\ mode' = KillTaskEndMode(reg)
            /\ lastOp' = Op("killTask", reg, <<>>, tasks[reg].status, "", NoTask, c.log, <<>>)
            /\ UNCHANGED <<nextTaskId, rescheduleNeeded, hist>>
    ELSE /\ mode' = KillTaskEndMode(reg)
         /\ lastOp' = Op("killTask", reg, <<>>, "", "", NoTask, NoLog, <<>>)
         /\ UNCHANGED <<tasks, nextTaskId, liveTasks, swapDir, rescheduleNeeded, hist>>

\* task.spawn()
Spawn(t) ==
    LET T == SpawnOn(tasks[t])
    IN /\ tasks' = [tasks EXCEPT ![t] = T]
       /\ hist' = [hist EXCEPT ![t] = SpawnedAfter(@, tasks[t], T)]
       /\ rescheduleNeeded' = (rescheduleNeeded \/ SpawnAllowed(tasks[t]))
       /\ lastOp' = Op("spawn", t, <<>>, "", "", NoTask, NoLog, <<>>)
       /\ UNCHANGED <<mode, nextTaskId, liveTasks, swapDir>>

\* the thread objects of task t that exist
ThreadsOf(t) ==
    {Thread(n, t, tasks[t].nonPreemptive) : n \in 0..(tasks[t].nextThreadNum - 1)}

AllThreads == UNION {ThreadsOf(t) : t \in TaskIds}

\* what a call on thread th finds in task t: th is the active thread, th is
\* in the thread list, or th is not in it
WasActive(t, th) ==
    IF tasks[t].activeThread = th THEN "active"
    ELSE IF Contains(tasks[t].threadsList, th) THEN "present" ELSE "absent"

\* what a call on descriptor fd finds in the open-file list of task t
WasOpen(t, fd) ==
    IF Contains(tasks[t].openFileDescriptor, fd) THEN "present" ELSE "absent"

\* task.addThread(th)
AddThread(t, th) ==
    /\ ~Contains(tasks[t].threadsList, th)
    /\ tasks' = [tasks EXCEPT ![t] = AddThreadTo(@, th)]
    /\ lastOp' = Op("addThread", t, <<>>, "", "", NoTask, NoLog, <<>>)
    /\ UNCHANGED <<mode, nextTaskId, liveTasks, swapDir, rescheduleNeeded, hist>>

\* task.removeThread(th)
RemoveThread(t, th) ==
    /\ tasks' = [tasks EXCEPT ![t] = RemoveThreadFrom(@, th)]
    /\ lastOp' = Op("removeThread", t, <<>>, WasActive(t, th), "", NoTask, NoLog, <<>>)
    /\ UNCHANGED <<mode, nextTaskId, liveTasks, swapDir, rescheduleNeeded, hist>>

\* th.kill() of a thread of task t
ThreadKill(t, th) ==
    /\ tasks' = [tasks EXCEPT ![t] = ThreadKillOn(@, th)]
    /\ lastOp' = Op("threadKill", t, <<>>, WasActive(t, th), "", NoTask, NoLog, <<>>)
    /\ UNCHANGED <<mode, nextTaskId, liveTasks, swapDir, rescheduleNeeded, hist>>

\* task.setActiveThread(th)
SetActiveThread(t, th) ==
    /\ tasks' = [tasks EXCEPT ![t] = SetActiveOn(@, th)]
    /\ lastOp' = Op("setActiveThread", t, th, "",
                    IF SetActiveRaises(tasks[t], th) THEN "Exception" ELSE "",
                    NoTask, NoLog, <<>>)
    /\ UNCHANGED <<mode, nextTaskId, liveTasks, swapDir, rescheduleNeeded, hist>>

\* the descriptors task t may hold
FilesOf(t) == {OpenFile(n, t) : n \in OtherFiles \cup {Str(t)}}

\* task.addOpenFile(fd)
AddOpenFile(t, fd) ==
    /\ tasks' = [tasks EXCEPT ![t] = AddOpenFileTo(@, fd)]
    /\ lastOp' = Op("addOpenFile", t, <<>>, WasOpen(t, fd), "", NoTask, NoLog, <<>>)
    /\ UNCHANGED <<mode, nextTaskId, liveTasks, swapDir, rescheduleNeeded, hist>>

\* task.removeOpenFile(fd)
RemoveOpenFile(t, fd) ==
    /\ tasks' = [tasks EXCEPT ![t] = RemoveOpenFileFrom(@, fd)]
    /\ lastOp' = Op("removeOpenFile", t, <<>>, WasOpen(t, fd), "", NoTask, NoLog, <<>>)
    /\ UNCHANGED <<mode, nextTaskId, liveTasks, swapDir, rescheduleNeeded, hist>>

Next ==
    \/ Trap
    \/ \E np \in BOOLEAN, u \in Users : Create(np, u)
    \/ \E r \in TaskIds \cup {NoTask} : KillTask(r)
    \/ \E t \in Worked : Spawn(t)
    \/ \E t \in Worked : \E th \in ThreadsOf(t) : AddThread(t, th)
    \/ \E t \in Worked : \E th \in ThreadsOf(t) : RemoveThread(t, th)
    \/ \E t \in Worked : \E th \in ThreadsOf(t) : ThreadKill(t, th)
    \/ \E t \in Worked : \E th \in AllThreads \cup {NoThread} : SetActiveThread(t, th)
    \/ \E t \in Worked : \E fd \in FilesOf(t) : AddOpenFile(t, fd)
    \/ \E t \in Worked : \E fd \in FilesOf(t) : RemoveOpenFile(t, fd)

Spec == Init /\ [][Next]_vars

----------------------------------------------------------------------------
(* Helpers of the properties *)

Active(t) == tasks[t].activeThread
Threads(t) == tasks[t].threadsList
Files(t) == tasks[t].openFileDescriptor

\* number of log entries <<kind, x>>
CountEv(log, kind, x) ==
    Cardinality({i \in 1..Len(log) : log[i][1] = kind /\ log[i][2] = x})

\* the step just taken is the call op(...)
Called(op) == lastOp'.op = op

\* the x of the log entries <<kind, x>>, in log order
RECURSIVE EventsOf(_, _)
EventsOf(log, kind) ==
    IF log = <<>> THEN <<>>
    ELSE IF Head(log)[1] = kind
    THEN <<Head(log)[2]>> \o EventsOf(Tail(log), kind)
    ELSE EventsOf(Tail(log), kind)

\* place of a kill log entry in the order status, thread kills, file closes,
\* deallocation, removal of the swap entry
KillRank(kind) ==
    CASE kind = "simkill" -> 0 [] kind = "status" -> 1 [] kind = "kill" -> 2
      [] kind = "close" -> 3 [] kind = "dealloc" -> 4 [] kind = "rm" -> 5

StatusRank(st) == CASE st = TaskNew -> 0 [] st = TaskReady -> 1 [] st = TaskKill -> 2

----------------------------------------------------------------------------
(* C1: for every task, in every reachable state (after any sequence of      *)
(* spawn, addThread, removeThread, setActiveThread and kill), the active    *)
(* thread is none or an element of the task's thread list.                  *)
C1_ActiveThreadOwned ==
    \A t \in TaskIds : Active(t) = NoThread \/ Contains(Threads(t), Active(t))

\* removeThread has just removed the active thread, other threads remain
C1_Witness ==
    /\ lastOp.op = "removeThread"
    /\ lastOp.pre = "active"
    /\ Active(lastOp.task) = NoThread
    /\ Len(Threads(lastOp.task)) >= 1

(* C2: a kill of a task calls kill on each thread of its thread list exactly *)
(* once, close on each descriptor of its open-file list exactly once,       *)
(* deallocates the page table exactly once and removes the swap entry       *)
(* exactly once.                                                            *)
C2_KillVisitsEachOnce ==
    [][\A r \in TaskIds :
         (Called("killTask") /\ lastOp'.task = r /\ lastOp'.raised = "") =>
            LET log == lastOp'.log IN
            /\ \A th \in ThreadsOf(r) : CountEv(log, "kill", th) = Count(Threads(r), th)
            /\ CountLog(log, "kill") = Len(Threads(r))
            /\ \A fd \in FilesOf(r) : CountEv(log, "close", fd) = Count(Files(r), fd)
            /\ CountLog(log, "close") = Len(Files(r))
            /\ CountLog(log, "dealloc") = 1
            /\ CountLog(log, "rm") = 1]_vars

\* a kill that found two threads and two open files
C2_Witness ==
    /\ lastOp.op = "killTask"
    /\ CountLog(lastOp.log, "kill") = 2
    /\ CountLog(lastOp.log, "close") = 2
    /\ Threads(lastOp.task) = <<>>

(* C3: the status of a task only moves forward along New, Ready, Killed: a  *)
(* new task is New after construction and Ready when create returns, a      *)
(* status becomes Ready only in create, becomes Killed only in killTask's   *)
(* kill of that task, and a Killed status never changes.                    *)
C3_StatusMoves ==
    [][\A t \in DOMAIN tasks' :
         IF t \notin TaskIds
         THEN /\ Called("create")
              /\ TaskInit(t, tasks'[t].user, tasks'[t].nonPreemptive).status = TaskNew
              /\ tasks'[t].status = TaskReady
         ELSE LET old == tasks[t].status
                  new == tasks'[t].status
              IN /\ StatusRank(old) <= StatusRank(new)
                 /\ (old = TaskKill => new = TaskKill)
                 /\ (new # old /\ new = TaskReady => Called("create"))
                 /\ (new # old /\ new = TaskKill =>
                        Called("killTask") /\ lastOp'.task = t)]_vars

\* kill has just run a second time on a task that was Killed already
C3_Witness ==
    /\ lastOp.op = "killTask"
    /\ lastOp.raised = ""
    /\ lastOp.task # NoTask
    /\ lastOp.pre = TaskKill
    /\ tasks[lastOp.task].status = TaskKill

(* C4: once a task is Killed, no operation changes its thread list,         *)
(* nextThreadNum, open-file list or active thread, and its page table is    *)
(* not deallocated and its swap entry not removed again.                    *)
C4_KilledIsFrozen ==
    [][\A t \in TaskIds :
         tasks[t].status = TaskKill =>
            /\ tasks'[t].threadsList = tasks[t].threadsList
            /\ tasks'[t].nextThreadNum = tasks[t].nextThreadNum
            /\ tasks'[t].openFileDescriptor = tasks[t].openFileDescriptor
            /\ tasks'[t].activeThread = tasks[t].activeThread
            /\ (Called("killTask") /\ lastOp'.task = t /\ lastOp'.raised = "") =>
                  /\ CountLog(lastOp'.log, "dealloc") = 0
                  /\ CountLog(lastOp'.log, "rm") = 0]_vars

(* C5: spawn adds exactly one thread when the number of threads in the      *)
(* thread list is below the maximum thread count, and otherwise leaves the  *)
(* thread list, nextThreadNum and the reschedule flag unchanged.            *)
C5_SpawnByThreadCount ==
    [][\A t \in TaskIds :
         (Called("spawn") /\ lastOp'.task = t) =>
            IF Len(Threads(t)) < MaxNumThreads
            THEN /\ Len(tasks'[t].threadsList) = Len(Threads(t)) + 1
                 /\ SubSeq(tasks'[t].threadsList, 1, Len(Threads(t))) = Threads(t)
            ELSE /\ tasks'[t].threadsList = Threads(t)
                 /\ tasks'[t].nextThreadNum = tasks[t].nextThreadNum
                 /\ rescheduleNeeded' = rescheduleNeeded]_vars

(* C6: the ids spawn gives to the threads of one task start at 0 and are    *)
(* strictly increasing, whatever removals happen in between, and            *)
(* nextThreadNum never decreases.                                           *)
C6_ThreadIdsIncrease ==
    [][\A t \in DOMAIN tasks' :
         LET ids == hist'[t].spawned IN
         /\ Len(ids) >= 1 => ids[1] = 0
         /\ \A i \in 1..(Len(ids) - 1) : ids[i] < ids[i + 1]
         /\ t \in TaskIds => tasks'[t].nextThreadNum >= tasks[t].nextThreadNum]_vars

\* a spawn after the first thread was removed: the new thread has id 1
C6_Witness ==
    /\ lastOp.op = "spawn"
    /\ hist[lastOp.task].spawned = <<0, 1>>
    /\ Len(Threads(lastOp.task)) = 1
    /\ ThreadId(Threads(lastOp.task)[1]) = 1

(* C7: create called in privileged mode with the live-task count at the     *)
(* maximum returns no task, leaves user mode, and issues no id, registers   *)
(* no task, creates no task, page table or swap file.                       *)
C7_CreateAtCapacity ==
    [][(Called("create") /\ mode = PrivilegedMode
            /\ Cardinality(liveTasks) >= MaxNumTasks) =>
          /\ lastOp'.ret = NoTask
          /\ lastOp'.raised = ""
          /\ lastOp'.newFile = <<>>
          /\ mode' = UserMode
          /\ UNCHANGED <<tasks, nextTaskId, liveTasks, swapDir, hist>>]_vars

\* create has just returned no task with the table full
C7_Witness ==
    /\ lastOp.op = "create"
    /\ lastOp.raised = ""
    /\ lastOp.ret = NoTask
    /\ Cardinality(liveTasks) = MaxNumTasks
    /\ mode = UserMode

(* C8: create called in privileged mode below capacity returns a task with  *)
(* an id no task had before, registered, Ready, with exactly one thread of  *)
(* id 0 carrying the task's non-preemptive flag, with priority 0 (-1 if     *)
(* non-preemptive), and leaves user mode.                                   *)
C8_CreateBelowCapacity ==
    [][(Called("create") /\ mode = PrivilegedMode
            /\ Cardinality(liveTasks) < MaxNumTasks) =>
          LET id == lastOp'.ret
              np == lastOp'.arg[1]
          IN /\ lastOp'.raised = ""
             /\ id # NoTask
             /\ id \notin TaskIds
             /\ id \in DOMAIN tasks'
             /\ id \in liveTasks'
             /\ tasks'[id].id = id
             /\ tasks'[id].status = TaskReady
             /\ tasks'[id].nonPreemptive = np
             /\ Len(tasks'[id].threadsList) = 1
             /\ ThreadId(tasks'[id].threadsList[1]) = 0
             /\ ThreadNonPreemptive(tasks'[id].threadsList[1]) = np
             /\ tasks'[id].priority = (IF np THEN -1 ELSE 0)
             /\ mode' = UserMode]_vars

\* create has just returned a second, non-preemptive task
C8_Witness ==
    /\ lastOp.op = "create"
    /\ lastOp.ret # NoTask
    /\ lastOp.ret >= 1
    /\ tasks[lastOp.ret].nonPreemptive
    /\ tasks[lastOp.ret].priority = -1
    /\ Len(Threads(lastOp.ret)) = 1

(* C9: create and killTask called outside privileged mode fail with an      *)
(* assertion failure and change nothing: no task, id, registration, swap    *)
(* file or task state, and the mode stays as it was.                        *)
C9_UnprivilegedTrapFails ==
    [][((Called("create") \/ Called("killTask")) /\ mode # PrivilegedMode) =>
          /\ lastOp'.raised = "AssertionError"
          /\ lastOp'.ret = NoTask
          /\ UNCHANGED <<mode, tasks, nextTaskId, liveTasks, swapDir,
                         rescheduleNeeded, hist>>]_vars

\* killTask has just failed in user mode on a Ready task
C9_Witness ==
    /\ lastOp.op = "killTask"
    /\ lastOp.raised = "AssertionError"
    /\ lastOp.task # NoTask
    /\ tasks[lastOp.task].status = TaskReady
    /\ mode = UserMode

(* C10: a killTask call that starts in privileged mode ends in user mode,   *)
(* whether register 1 holds a task or none; with none in the register no    *)
(* task, registration or swap entry changes.                                *)
C10_KillTaskRestoresMode ==
    [][(Called("killTask") /\ mode = PrivilegedMode) =>
          /\ mode' = UserMode
          /\ lastOp'.raised = ""
          /\ (lastOp'.task = NoTask =>
                UNCHANGED <<tasks, nextTaskId, liveTasks, swapDir, hist>>)]_vars

\* killTask has just run with an empty register while tasks exist
C10_Witness ==
    /\ lastOp.op = "killTask"
    /\ lastOp.task = NoTask
    /\ lastOp.raised = ""
    /\ mode = UserMode
    /\ liveTasks # {}

(* C11: when a kill has completed, the thread list of the killed task is    *)
(* empty, its open-file list is empty (the swap descriptor is gone too) and *)
(* its active thread is none, however many threads and files it held and    *)
(* whichever thread was active.                                             *)
C11_KillEmptiesTask ==
    (lastOp.op = "killTask" /\ lastOp.task # NoTask /\ lastOp.raised = "") =>
        /\ Threads(lastOp.task) = <<>>
        /\ Files(lastOp.task) = <<>>
        /\ Active(lastOp.task) = NoThread

\* a kill of a Ready task that killed two threads and closed the swap
\* descriptor and another file
C11_Witness ==
    /\ lastOp.op = "killTask"
    /\ lastOp.raised = ""
    /\ lastOp.pre = TaskReady
    /\ CountLog(lastOp.log, "kill") >= 2
    /\ CountLog(lastOp.log, "close") >= 2
    /\ CountEv(lastOp.log, "close", tasks[lastOp.task].swapFile) = 1
    /\ Files(lastOp.task) = <<>>
    /\ Active(lastOp.task) = NoThread

(* C12: setActiveThread(None) succeeds and leaves no active thread;         *)
(* setActiveThread(th) with th in the thread list succeeds and makes th the *)
(* active thread; with th not in the list it raises an exception about th   *)
(* and leaves the active thread as it was. The thread list never changes.   *)
C12_SetActiveThread ==
    [][\A t \in TaskIds :
         (Called("setActiveThread") /\ lastOp'.task = t) =>
            LET th == lastOp'.arg IN
            /\ tasks'[t].threadsList = Threads(t)
            /\ IF th = NoThread
               THEN lastOp'.raised = "" /\ tasks'[t].activeThread = NoThread
               ELSE IF Contains(Threads(t), th)
               THEN lastOp'.raised = "" /\ tasks'[t].activeThread = th
               ELSE /\ lastOp'.raised = "Exception"
                    /\ tasks'[t].activeThread = Active(t)]_vars

\* setActiveThread has just refused a thread of another task while a thread
\* of the task was active
C12_Witness ==
    /\ lastOp.op = "setActiveThread"
    /\ lastOp.raised = "Exception"
    /\ lastOp.arg # NoThread
    /\ ThreadTask(lastOp.arg) # lastOp.task
    /\ Active(lastOp.task) # NoThread
    /\ Contains(Threads(lastOp.task), Active(lastOp.task))

(* C13: the open-file list of a task never holds the same descriptor twice, *)
(* after construction and any addOpenFile and removeOpenFile calls; so an   *)
(* addOpenFile of a descriptor already in the list, the swap descriptor     *)
(* included, adds nothing.                                                  *)
C13_OpenFilesDistinct ==
    \A t \in TaskIds :
        \A i, j \in 1..Len(Files(t)) : Files(t)[i] = Files(t)[j] => i = j

\* addOpenFile has just been called with the swap descriptor, the only
\* descriptor of the list
C13_Witness ==
    /\ lastOp.op = "addOpenFile"
    /\ lastOp.pre = "present"
    /\ Files(lastOp.task) = <<tasks[lastOp.task].swapFile>>

(* C14: removeThread of a thread that is not in the thread list, and        *)
(* removeOpenFile of a descriptor that is not in the open-file list, do not *)
(* raise and leave the thread list, the open-file list, the active thread   *)
(* and the status of the task as they were.                                 *)
C14_RemoveAbsentIsNoOp ==
    [][\A t \in TaskIds :
         ( /\ Called("removeThread") \/ Called("removeOpenFile")
           /\ lastOp'.task = t
           /\ lastOp'.pre = "absent" ) =>
            /\ lastOp'.raised = ""
            /\ tasks'[t].threadsList = Threads(t)
            /\ tasks'[t].openFileDescriptor = Files(t)
            /\ tasks'[t].activeThread = Active(t)
            /\ tasks'[t].status = tasks[t].status]_vars

\* removeThread has just been called with a thread that is not in the list,
\* while the task has an active thread and two open files
C14_Witness ==
    /\ lastOp.op = "removeThread"
    /\ lastOp.pre = "absent"
    /\ lastOp.raised = ""
    /\ Active(lastOp.task) # NoThread
    /\ Len(Files(lastOp.task)) = 2
    /\ tasks[lastOp.task].status = TaskReady

(* C15: the constructor, run by create for a new id, leaves a task with     *)
(* status New, no threads, no active thread, next thread id 0 and an        *)
(* open-file list holding exactly the swap descriptor; if /swap already has *)
(* an entry named str(id) that entry is opened and newFile is not called,   *)
(* otherwise newFile is called once, with that name and size                *)
(* 2 ** addressBits, and the new entry is opened.                           *)
C15_Constructor ==
    [][(Called("create") /\ lastOp'.ret # NoTask) =>
          LET id   == lastOp'.ret
              T0   == lastOp'.log[1][2]
              name == Str(id)
          IN /\ lastOp'.log[1][1] = "construct" /\ Len(lastOp'.log) = 1
             /\ T0.id = id
             /\ T0.status = TaskNew
             /\ T0.threadsList = <<>>
             /\ T0.activeThread = NoThread
             /\ T0.nextThreadNum = 0
             /\ T0.openFileDescriptor = <<T0.swapFile>>
             /\ T0.swapFile = OpenFile(name, id)
             /\ IF name \in swapDir
                THEN lastOp'.newFile = <<>> /\ swapDir' = swapDir
                ELSE /\ lastOp'.newFile = <<name, 2 ^ NumAddressBits>>
                     /\ swapDir' = swapDir \cup {name}]_vars

\* create has just built task 0 on a swap file that was already in /swap
C15_Witness ==
    /\ lastOp.op = "create"
    /\ lastOp.ret = 0
    /\ lastOp.newFile = <<>>
    /\ Str(0) \in swapDir
    /\ FdName(tasks[0].swapFile) = Str(0)

C17_PriorityFollowsFlag ==
    [][\A t \in DOMAIN tasks' :
         /\ tasks'[t].nonPreemptive <=> (tasks'[t].priority = -1)
         /\ (~tasks'[t].nonPreemptive) <=> (tasks'[t].priority = 0)
         /\ t \in TaskIds =>
               /\ tasks'[t].priority = tasks[t].priority
               /\ tasks'[t].nonPreemptive = tasks[t].nonPreemptive]_vars

\* a non-preemptive task with priority -1 has just been killed with two
\* threads, next to a preemptive task with priority 0
C17_Witness ==
    /\ lastOp.op = "killTask"
    /\ lastOp.task # NoTask
    /\ CountLog(lastOp.log, "kill") >= 2
    /\ tasks[lastOp.task].nonPreemptive
    /\ tasks[lastOp.task].priority = -1
    /\ \E u \in TaskIds : ~tasks[u].nonPreemptive /\ tasks[u].priority = 0

C20_NumThreadsIsListLength ==
    \A t \in TaskIds : GetNumThreads(tasks[t]) = Len(Threads(t))

(* C21: a step taken while the mode is not privileged changes the status,   *)
(* the thread list, the open-file list and the active thread of no task:    *)
(* spawn, addThread, removeThread, setActiveThread, addOpenFile,            *)
(* removeOpenFile and kill alter them only in privileged mode.              *)
C21_MutationOnlyPrivileged ==
    [][mode # PrivilegedMode =>
          \A t \in TaskIds :
              /\ tasks'[t].status = tasks[t].status
              /\ tasks'[t].threadsList = Threads(t)
              /\ tasks'[t].openFileDescriptor = Files(t)
              /\ tasks'[t].activeThread = Active(t)]_vars

====
